---- MODULE Spec2Model ----
(***************************************************************************)
(* Model of the Seabird 19plusV2 hex decoder (src/sbe19plusV2/parseHex.ts) *)
(* and of the oxygen equation (src/sbe19plusV2/equations/oxygen.ts).       *)
(* One step of the model is one iteration of the line loop of parseHex:    *)
(* the header handlers, the sentinel test and the frame decoder applied to *)
(* the line that was read.  A last step assembles the table.               *)
(*                                                                         *)
(* Lines are modelled by their structure: a header line is a record with   *)
(* the results of the splits the handler performs (number of parts, the    *)
(* tokens of each part); the text of a line is a sequence of characters.   *)
(***************************************************************************)
EXTENDS Integers, Sequences, FiniteSets, TLC

VARIABLES
    pc,             \* "reading" (inside the line loop), "aborted" (outer catch), "done"
    lineNum, dataStartLine,
    serialNumber, endDateTime, samples, mode, pumpDelay,
    pressureSensor, extraSensors, voltages, voltageOffsets, casts,
    schema, data, dataRow,
    df, outcome,    \* the assembled table and how parseHex ended
    line,           \* history: the line read by the last iteration
    trace,          \* history: what each rule did on the last decoded line
    written,        \* history: per rule, the row indices stored so far
    oxyPc,          \* oxygen(): "idle", "called", "returned", "thrown" (to the caller)
    argDf, colName, calibration,    \* the arguments df, colName and c of oxygen()
    retDf,          \* the table oxygen() returned
    caught,         \* history: the catch of oxygen.ts line 71 ran
    dvdts           \* history: the lag term dvdt of every row scanned

config == <<serialNumber, endDateTime, samples, mode, pumpDelay,
            pressureSensor, extraSensors, voltages, voltageOffsets, casts>>
decoderVars == <<pc, lineNum, dataStartLine, config, schema, data, dataRow,
                 df, outcome, line, trace, written>>
oxygenVars == <<oxyPc, argDf, colName, calibration, retDf, caught, dvdts>>
vars == <<decoderVars, oxygenVars>>

(***************************************************************************)
(* Bounds of the model.                                                    *)
(***************************************************************************)
MaxLines == 4       \* number of lines read from the file
MaxSamples == 2     \* largest sample count announced by a "* samples" line
MaxRows == 3        \* largest number of rows of a table given to oxygen()

(***************************************************************************)
(* JavaScript numbers.  A number is NaN or the rational                    *)
(* (hi * 2^24 + num) / den, hi > 0 only for integers wider than 24 bits.   *)
(* null (the initial value of samples and pumpDelay) has its own tag.      *)
(***************************************************************************)
NaN == [nan |-> TRUE, hi |-> 0, num |-> 0, den |-> 1]
Int32(n) == [nan |-> FALSE, hi |-> 0, num |-> n, den |-> 1]
Zero == Int32(0)
isNaN(v) == v.nan

NullNum == [tag |-> "null", n |-> 0]
NaNNum == [tag |-> "NaN", n |-> 0]
IntNum(n) == [tag |-> "int", n |-> n]

NullStr == "<null>"

Pow2(n) == 2 ^ n

RECURSIVE BitLen(_)
BitLen(n) == IF n = 0 THEN 0 ELSE 1 + BitLen(n \div 2)

(* math.divide and math.subtract of the rule table, on exact rationals *)
divide(v, d) == [v EXCEPT !.den = v.den * d]
subtract(v, s) == [v EXCEPT !.num = v.num - s * v.den]

ApplyOp(operation, v) ==
    IF operation.op = "divide" THEN divide(v, operation.value)
    ELSE subtract(v, operation.value)

(* The store into a Float32Array rounds to 24 significant bits (nearest,  *)
(* ties to even).  Integers are rounded exactly as the store does; scaled  *)
(* values are kept as the exact rational.                                  *)
Fround(v) ==
    IF v.nan \/ v.den # 1 \/ v.hi = 0 THEN v
    ELSE LET b == BitLen(v.hi)
             q == v.hi * Pow2(24 - b) + (v.num \div Pow2(b))
             rem == v.num % Pow2(b)
             half == Pow2(b - 1)
             up == rem > half \/ (rem = half /\ q % 2 = 1)
             q2 == IF up THEN q + 1 ELSE q
         IN  [nan |-> FALSE,
              hi |-> q2 \div Pow2(24 - b),
              num |-> (q2 % Pow2(24 - b)) * Pow2(b),
              den |-> 1]

(***************************************************************************)
(* Characters and the external conversions.                                *)
(***************************************************************************)
HexChars == <<"0", "1", "2", "3", "4", "5", "6", "7",
              "8", "9", "A", "B", "C", "D", "E", "F">>
DecChars == <<"0", "1", "2", "3", "4", "5", "6", "7", "8", "9">>

IsHex(c) == \E i \in 1..16 : HexChars[i] = c
HexVal(c) == (CHOOSE i \in 1..16 : HexChars[i] = c) - 1
IsDec(c) == \E i \in 1..10 : DecChars[i] = c
DecVal(c) == (CHOOSE i \in 1..10 : DecChars[i] = c) - 1

RECURSIVE DigitsVal(_)
DigitsVal(s) ==
    IF s = <<>> THEN 0
    ELSE DigitsVal(SubSeq(s, 1, Len(s) - 1)) * 16 + HexVal(s[Len(s)])

ValidHex(field) == field # <<>> /\ \A i \in 1..Len(field) : IsHex(field[i])

(* hex2dec of ../utilities: the integer a field of hex digits denotes, NaN *)
(* when the field holds a character that is not a hex digit.               *)
hex2dec(field) ==
    IF ~ValidHex(field) THEN NaN
    ELSE LET n == Len(field)
         IN  IF n <= 6 THEN Int32(DigitsVal(field))
             ELSE [nan |-> FALSE,
                   hi |-> DigitsVal(SubSeq(field, 1, n - 6)),
                   num |-> DigitsVal(SubSeq(field, n - 5, n)),
                   den |-> 1]

(* String.prototype.slice(a, b) for 0 <= a <= b: clamps to the length *)
slice(text, a, b) ==
    LET hi == IF b > Len(text) THEN Len(text) ELSE b
    IN  IF a >= hi THEN <<>> ELSE SubSeq(text, a + 1, hi)

(* parseInt(token) in base 10 (also used for parseFloat, whose inputs in   *)
(* this model are integer literals): optional sign, longest digit prefix,  *)
(* NaN when there is no digit; parseInt(undefined) is NaN as well.         *)
RECURSIVE DecPrefix(_, _)
DecPrefix(s, acc) ==
    IF s = <<>> \/ ~IsDec(Head(s)) THEN acc
    ELSE DecPrefix(Tail(s), acc * 10 + DecVal(Head(s)))

Undefined == <<"undefined">>

parseInt(tok) ==
    IF tok = Undefined \/ tok = <<>> THEN NaNNum
    ELSE LET neg == Head(tok) = "-"
             body == IF neg THEN Tail(tok) ELSE tok
         IN  IF body = <<>> \/ ~IsDec(Head(body)) THEN NaNNum
             ELSE IntNum(IF neg THEN 0 - DecPrefix(body, 0) ELSE DecPrefix(body, 0))

parseFloat(tok) == parseInt(tok)

(***************************************************************************)
(* The rule table.  operations: null is the empty sequence.                *)
(***************************************************************************)
Op(o, v) == [op |-> o, value |-> v]
Rule(s, v, n, ops) == [sensor |-> s, variable |-> v, size |-> n, operations |-> ops]

parsingRules == <<
    Rule("Temperature", "Temperature A/D Counts", 6, <<>>),
    Rule("Conductivity", "Conductivity Frequency", 6, <<Op("divide", 256)>>),
    Rule("Pressure", "Pressure A/D Counts", 6, <<>>),
    Rule("Pressure", "Pressure Temperature Compensation Voltage", 4, <<Op("divide", 13107)>>),
    Rule("Voltage", "External Voltage 0", 4, <<Op("divide", 13107)>>),
    Rule("Voltage", "External Voltage 1", 4, <<Op("divide", 13107)>>),
    Rule("Voltage", "External Voltage 2", 4, <<Op("divide", 13107)>>),
    Rule("Voltage", "External Voltage 3", 4, <<Op("divide", 13107)>>),
    Rule("Voltage", "External Voltage 4", 4, <<Op("divide", 13107)>>),
    Rule("Voltage", "External Voltage 5", 4, <<Op("divide", 13107)>>),
    Rule("SBE38", "SBE38 Temperature", 6, <<Op("divide", 100000), Op("subtract", 10)>>),
    Rule("WETLABS", "WETLABS Signal Counts", 12, <<>>),
    Rule("GasTensionDevice", "GTD Pressure", 6, <<Op("divide", 100000)>>),
    Rule("GasTensionDevice", "GTD Temperature", 6, <<Op("divide", 100000), Op("subtract", 10)>>),
    Rule("OPTODE", "OPTODE Oxygen", 6, <<Op("divide", 10000), Op("subtract", 10)>>),
    Rule("SBE63", "SBE63 Oxygen Phase", 6, <<Op("divide", 100000), Op("subtract", 10)>>),
    Rule("SBE63", "SBE63 Oxygen Temperature Voltage", 6, <<Op("divide", 1000000), Op("subtract", 1)>>),
    Rule("SeaFET", "SeaFET Internal Reference Cell Voltage", 7, <<Op("divide", 1000000), Op("subtract", 8)>>),
    Rule("SeaFET", "SeaFET External Reference Cell Voltage", 12, <<Op("divide", 1000000), Op("subtract", 8)>>),
    Rule("Clock", "Time, Seconds since January 1, 2000", 8, <<>>) >>

NumRules == Len(parsingRules)
RuleIds == 1..NumRules

(***************************************************************************)
(* Lines of the input file.                                                *)
(***************************************************************************)
Rep(c, n) == [i \in 1..n |-> c]
(* the characters of a header line: a star, then text that is not hex *)
HeaderText == <<"*", " ">> \o Rep("h", 6 + 6 + 6 + 4)
EndText == <<"*", "E", "N", "D", "*">>

Seg(k, v, e) == [key |-> k, val |-> v, eqs |-> e]

NoLine == [kind |-> "none", text |-> <<>>]
BannerLine(np, sn, rest) ==
    [kind |-> "banner", serialParts |-> np, serial |-> sn, rest |-> rest, text |-> HeaderText]
SamplesLine(tok) == [kind |-> "samples", countTok |-> tok, text |-> HeaderText]
ModeLine(np, m, tok) ==
    [kind |-> "mode", modeParts |-> np, modeText |-> m, delayTok |-> tok, text |-> HeaderText]
PressureLine(segs) == [kind |-> "pressure", segs |-> segs, text |-> HeaderText]
SensorsLine(segs) == [kind |-> "sensors", segs |-> segs, text |-> HeaderText]
ExtVoltLine(segs) == [kind |-> "extvolt", segs |-> segs, text |-> HeaderText]
VoltLine(np, label, nc, off, slope) ==
    [kind |-> "volt", colonParts |-> np, label |-> label, commaParts |-> nc,
     offsetTok |-> off, slopeTok |-> slope, text |-> HeaderText]
CastLine(nc, ns, cast, date, start, end, avg) ==
    [kind |-> "cast", commaParts |-> nc, samplesParts |-> ns, castTok |-> cast,
     dateText |-> date, startTok |-> start, endTok |-> end, avgTok |-> avg,
     text |-> HeaderText]
EndLine == [kind |-> "end", text |-> EndText]
DataLine(text) == [kind |-> "data", text |-> text]

DecTok(n) == <<DecChars[n + 1]>>

BannerLines == { BannerLine(2, "6218", "23 Aug 2016 08:31:06") }
SamplesLines ==
    { SamplesLine(DecTok(1)), SamplesLine(DecTok(MaxSamples)),
      SamplesLine(<<"-", "1">>), SamplesLine(Undefined) }
ModeLines ==
    { ModeLine(3, "profile", <<"6", "0">>), ModeLine(3, "moored", <<"6", "0">>),
      ModeLine(2, "profile", <<"6", "0">>) }
PressureLines ==
    { PressureLine(<<Seg("pressure sensor", "strain gauge", 1), Seg("range", "508.0", 1)>>) }
SensorsLines ==
    { SensorsLine(<<Seg("SBE 38", "no", 1), Seg("WETLABS", "no", 1), Seg("OPTODE", "no", 1),
                    Seg("SBE63", "no", 1), Seg("Gas Tension Device", "no", 1)>>),
      SensorsLine(<<Seg("SBE 38", "yes", 1), Seg("WETLABS", "no", 1), Seg("OPTODE", "", 0),
                    Seg("SeaFET", "yes", 1)>>) }
ExtVoltLines ==
    { ExtVoltLine(<<Seg("Ext Volt 0", "yes", 1), Seg("Ext Volt 1", "no", 1)>>),
      ExtVoltLine(<<Seg("Ext Volt 0", "no", 1), Seg("Ext Volt 2", "yes", 1)>>) }
VoltLines ==
    { VoltLine(2, "Voltage 0", 2, <<"-", "4">>, <<"1">>),
      VoltLine(2, "Voltage 0", 1, <<"-", "4">>, Undefined),
      VoltLine(1, "Voltage 0", 0, Undefined, Undefined) }
CastLines ==
    { CastLine(3, 2, <<"1">>, "21 Aug 2016 17:05:01", <<"1">>, <<"2">>, <<"1">>),
      CastLine(3, 1, <<"1">>, "21 Aug 2016 17:05:01", Undefined, Undefined, <<"1">>),
      CastLine(1, 2, <<"1">>, "21 Aug 2016 17:05:01", <<"1">>, <<"2">>, Undefined),
      CastLine(3, 2, <<"2">>, "21 Aug 2016 18:10:45", <<"5">>, <<"2">>, <<"1">>) }

(* Data lines: n characters, the i-th being hex digit (i + seed) mod 16,   *)
(* except position bad (0: none), which holds a character that is no digit *)
DataText(n, seed, bad) ==
    [i \in 1..n |-> IF i = bad THEN "G" ELSE HexChars[((i + seed) % 16) + 1]]

RECURSIVE SumSizes(_)
SumSizes(ids) ==
    IF ids = {} THEN 0
    ELSE LET r == CHOOSE x \in ids : TRUE
         IN  parsingRules[r].size + SumSizes(ids \ {r})
(* Temperature, Conductivity, Pressure, compensation voltage *)
BaseLen == SumSizes(1..4)
(* every rule of the table but the two SeaFET rules *)
FullLen == SumSizes({r \in RuleIds : parsingRules[r].sensor # "SeaFET"})
(* one character short of the first rule, long enough for a 4-character rule *)
ShortLen == parsingRules[1].size - 1
DataLines ==
    { DataLine(DataText(n, 0, 0)) : n \in {ShortLen, BaseLen, BaseLen + 4, FullLen} }
        \cup { DataLine(DataText(BaseLen + 4, 3, 0)),
               DataLine(DataText(BaseLen + 4, 0, 8)) }

(* Files read by Spec: the headers the frame decoder consults, the         *)
(* sentinel, data lines, and a cast line whose handler throws.             *)
FrameLines ==
    (SamplesLines \ {SamplesLine(Undefined)}) \cup {ModeLine(3, "profile", <<"6", "0">>)}
        \cup SensorsLines \cup ExtVoltLines \cup {EndLine} \cup DataLines
        \cup {l \in CastLines : l.samplesParts < 2}

(* Files read by SpecHeader: a line for every header handler, the         *)
(* malformed variants, the sentinel and a data line                        *)
HeaderFileLines ==
    BannerLines \cup {SamplesLine(DecTok(MaxSamples)), SamplesLine(Undefined)}
        \cup {l \in ModeLines : l.modeText = "profile"} \cup PressureLines
        \cup {l \in SensorsLines : Len(l.segs) = 4}
        \cup {l \in ExtVoltLines : l.segs[1].val = "yes"}
        \cup VoltLines \cup CastLines \cup {EndLine}
        \cup {DataLine(DataText(BaseLen + 4, 0, 0))}

(* how hex2dec may signal a field that is not hex: NaN or an exception *)
HexFailureModes(l) ==
    IF \E i \in 1..Len(l.text) : ~IsHex(l.text[i]) THEN BOOLEAN ELSE {FALSE}

(***************************************************************************)
(* Header handlers (parseHex.ts lines 73-171).                             *)
(***************************************************************************)
Put(map, k, v) == [x \in DOMAIN map \cup {k} |-> IF x = k THEN v ELSE map[x]]
EmptyMap == [x \in {} |-> TRUE]

(* key.replace(/ /g, '') on the sensor names a header can hold *)
StripSpaces(k) ==
    CASE k = "SBE 38" -> "SBE38"
      [] k = "Gas Tension Device" -> "GasTensionDevice"
      [] OTHER -> k

(* key.replace("Ext", "External").replace("Volt", "Voltage") *)
RenameVolt(k) ==
    CASE k = "Ext Volt 0" -> "External Voltage 0"
      [] k = "Ext Volt 1" -> "External Voltage 1"
      [] k = "Ext Volt 2" -> "External Voltage 2"
      [] k = "Ext Volt 3" -> "External Voltage 3"
      [] k = "Ext Volt 4" -> "External Voltage 4"
      [] k = "Ext Volt 5" -> "External Voltage 5"
      [] OTHER -> k

RECURSIVE PutSegs(_, _, _)
(* parts.forEach: a segment with exactly one "=" sets its key *)
PutSegs(map, segs, kind) ==
    IF segs = <<>> THEN map
    ELSE LET s == Head(segs)
             k == IF kind = "sensors" THEN StripSpaces(s.key)
                  ELSE IF kind = "extvolt" THEN RenameVolt(s.key)
                  ELSE s.key
             v == IF kind = "pressure" THEN s.val ELSE s.val = "yes"
         IN  PutSegs(IF s.eqs = 1 THEN Put(map, k, v) ELSE map, Tail(segs), kind)

BannerApplies(l) == l.kind = "banner" /\ endDateTime = NullStr /\ l.serialParts = 2
serialNumberAfter(l) == IF BannerApplies(l) THEN l.serial ELSE serialNumber
endDateTimeAfter(l) == IF BannerApplies(l) THEN l.rest ELSE endDateTime

samplesAfter(l) == IF l.kind = "samples" THEN parseInt(l.countTok) ELSE samples

ModeApplies(l) == l.kind = "mode" /\ l.modeParts = 3
modeAfter(l) == IF ModeApplies(l) THEN l.modeText ELSE mode
pumpDelayAfter(l) == IF ModeApplies(l) THEN parseFloat(l.delayTok) ELSE pumpDelay

pressureSensorAfter(l) ==
    IF l.kind = "pressure" THEN PutSegs(pressureSensor, l.segs, "pressure") ELSE pressureSensor
extraSensorsAfter(l) ==
    IF l.kind = "sensors" THEN PutSegs(extraSensors, l.segs, "sensors") ELSE extraSensors
voltagesAfter(l) ==
    IF l.kind = "extvolt" THEN PutSegs(voltages, l.segs, "extvolt") ELSE voltages

(* subparts[1].replace(...) with subparts[1] undefined is a TypeError *)
VoltThrows(l) == l.kind = "volt" /\ l.colonParts = 2 /\ l.commaParts < 2
voltageOffsetsAfter(l) ==
    IF l.kind = "volt" /\ l.colonParts = 2 /\ ~VoltThrows(l)
    THEN Put(voltageOffsets, l.label,
             [offset |-> parseFloat(l.offsetTok), slope |-> parseFloat(l.slopeTok)])
    ELSE voltageOffsets

(* subparts[1].split("to") and parts[1].split("=") on undefined throw *)
CastThrows(l) == l.kind = "cast" /\ (l.samplesParts < 2 \/ l.commaParts < 2)
castsAfter(l) ==
    IF l.kind = "cast" /\ l.commaParts >= 1 /\ ~CastThrows(l)
    THEN Append(casts, [cast |-> parseInt(l.castTok), startDate |-> l.dateText,
                        startNum |-> parseInt(l.startTok), endNum |-> parseInt(l.endTok),
                        avg |-> parseInt(l.avgTok)])
    ELSE casts

HeaderThrows(l) == VoltThrows(l) \/ CastThrows(l)

dataStartLineAfter(l) == IF l.kind = "end" THEN lineNum + 1 ELSE dataStartLine

(***************************************************************************)
(* Frame decoder (parseHex.ts lines 173-222).                              *)
(***************************************************************************)
NullData == [null |-> TRUE, arr |-> <<>>]

(* new Float32Array(samples): ToIndex(null) = ToIndex(NaN) = 0, a negative *)
(* length is a RangeError                                                  *)
ArrayLength(smp) == IF smp.tag = "int" THEN smp.n ELSE 0

(* the allocation with one element more than the sample count *)
NewFloat32Array_OneMore(smp) == [null |-> FALSE, arr |-> Rep(Zero, ArrayLength(smp) + 1)]

(* new Float32Array(samples), line 210 *)
NewFloat32Array(smp) == [null |-> FALSE, arr |-> Rep(Zero, ArrayLength(smp))]

Truthy(map, k) == k \in DOMAIN map /\ map[k]

(* the skip test without its voltage-flag disjunct *)
SkipTest_NoVoltageTest(rule, volt, extra, md) ==
    \/ rule.sensor \in DOMAIN extra /\ ~extra[rule.sensor]
    \/ rule.sensor = "Clock" /\ md = "profile"
    \/ rule.sensor = "SeaFET"
    \/ rule.sensor = "DualGTP"
    \/ rule.sensor = "DualGasTensionDevice"

(* the skip test reading an absent sensor flag as false and no longer      *)
(* hardcoding the unsupported groups                                       *)
SkipTest_AbsentIsFalse(rule, volt, extra, md) ==
    \/ rule.sensor = "Voltage" /\ ~Truthy(volt, rule.variable)
    \/ rule.sensor \in {"SBE38", "WETLABS", "GasTensionDevice", "OPTODE", "SBE63", "SeaFET"}
          /\ ~Truthy(extra, rule.sensor)
    \/ rule.sensor = "Clock" /\ md = "profile"

(* the skip test of lines 186-194 *)
SkipTest(rule, volt, extra, md) ==
    \/ rule.sensor = "Voltage" /\ ~Truthy(volt, rule.variable)
    \/ rule.sensor \in DOMAIN extra /\ ~extra[rule.sensor]
    \/ rule.sensor = "Clock" /\ md = "profile"
    \/ rule.sensor = "SeaFET"
    \/ rule.sensor = "DualGTP"
    \/ rule.sensor = "DualGasTensionDevice"

(* the bounds check without its second conjunct *)
BoundsOk_StartOnly(cur, size, len) == cur < len

(* the bounds check of line 198 *)
BoundsOk(cur, size, len) == cur < len /\ cur + size <= len

RECURSIVE ApplyOps(_, _)
ApplyOps(ops, v) ==
    IF ops = <<>> THEN v ELSE ApplyOps(Tail(ops), ApplyOp(Head(ops), v))

(* history record of one rule on one line: what happened (flag: skip test, *)
(* short: bounds check, nan, throw: exception caught at line 216, commit), *)
(* currentChar before and after, whether schema.push ran, whether the      *)
(* rule's array was allocated, whether a value was stored                  *)
Entry(r, w, before, after, pushed, created, stored) ==
    [rule |-> r, what |-> w, before |-> before, after |-> after,
     pushed |-> pushed, created |-> created, stored |-> stored]

(* One iteration of the rule loop.  env: the line's text, whether the line *)
(* is the first data line, the row index, the configuration, and how the   *)
(* external conversion signals a field that is not hex (NaN or exception). *)
(* acc: currentChar, schema, the rules' data, and the history.             *)
RuleStep(acc, r, env) ==
    LET rule == parsingRules[r]
        Skipped(w) == [acc EXCEPT !.trace = Append(@, Entry(r, w, acc.cur, acc.cur, FALSE, FALSE, FALSE))]
    IN
    IF SkipTest(rule, env.voltages, env.extraSensors, env.mode) THEN Skipped("flag")
    ELSE IF ~BoundsOk(acc.cur, rule.size, Len(env.text)) THEN Skipped("short")
    ELSE
      LET field == slice(env.text, acc.cur, acc.cur + rule.size)
          raw == hex2dec(field)
          value == IF rule.operations # <<>> /\ ~isNaN(raw)
                   THEN ApplyOps(rule.operations, raw) ELSE raw
      IN
      IF isNaN(raw) /\ env.hexThrows THEN Skipped("throw")
      ELSE IF isNaN(value) THEN Skipped("nan")
      ELSE
        LET schema2 == IF env.first THEN Append(acc.schema, rule.variable) ELSE acc.schema
            rangeError == env.first /\ ArrayLength(env.samples) < 0
            data2 == IF env.first /\ ~rangeError
                     THEN [acc.data EXCEPT ![r] = NewFloat32Array(env.samples)]
                     ELSE acc.data
            typeError == data2[r].null
            inRange == env.row < Len(data2[r].arr)
        IN
        IF rangeError \/ typeError
        THEN [acc EXCEPT !.schema = schema2,
                         !.trace = Append(@, Entry(r, "throw", acc.cur, acc.cur, env.first,
                                                  env.first /\ ~rangeError, FALSE))]
        ELSE [cur |-> acc.cur + rule.size,
              schema |-> schema2,
              data |-> IF inRange
                       THEN [data2 EXCEPT ![r].arr[env.row + 1] = Fround(value)]
                       ELSE data2,
              written |-> IF inRange
                          THEN [acc.written EXCEPT ![r] = Append(@, env.row)]
                          ELSE acc.written,
              trace |-> Append(acc.trace,
                               Entry(r, "commit", acc.cur, acc.cur + rule.size,
                                     env.first, env.first, inRange))]

RECURSIVE RuleLoop(_, _, _)
RuleLoop(acc, r, env) ==
    IF r > NumRules THEN acc ELSE RuleLoop(RuleStep(acc, r, env), r + 1, env)

(* lines 175-219: currentChar = 0, then every rule of the table in order *)
DecodeLine(env, sch, dat, wr) ==
    RuleLoop([cur |-> 0, schema |-> sch, data |-> dat, written |-> wr, trace |-> <<>>], 1, env)

(* the test of line 173 without the comparison with -1 *)
InDataMode_NoSentinelTest(ln, start) == ln >= start

(* the test of line 173 *)
InDataMode(ln, start) == ln >= start /\ start # -1

(* the row index advancing only when no rule of the line threw *)
NextDataRow_OnSuccessOnly(row, tr) ==
    IF \E i \in 1..Len(tr) : tr[i].what = "throw" THEN row ELSE row + 1

(* the row index advancing once per committed rule instead of once per line *)
NextDataRow_PerCommit(row, tr) ==
    row + Cardinality({i \in 1..Len(tr) : tr[i].what = "commit"})

(* line 221 *)
NextDataRow(row, tr) == row + 1

(***************************************************************************)
(* The oxygen equation (src/sbe19plusV2/equations/oxygen.ts).              *)
(*                                                                         *)
(* A real number is the integer nearest to it in units of 10^-6; products  *)
(* and quotients are computed in pieces that fit 32-bit integers and are   *)
(* truncated towards zero.  Math.exp and Math.log are their power series.  *)
(* On the inputs of the model (temperatures of -2..35 degC in hundredths,  *)
(* voltages of 0..5 V, pressure and salinity 0) every value computed below *)
(* is within 0.005 of the value the double arithmetic of the code yields,  *)
(* which is coarser than the rounding of the Float32Array store.           *)
(***************************************************************************)
Scale == 10 ^ 6

Sign(a) == IF a < 0 THEN -1 ELSE 1
Abs(a) == IF a < 0 THEN -a ELSE a
TDiv(a, n) == Sign(a) * (Abs(a) \div n)

(* a * b, split in base 1000 *)
Mul(a, b) ==
    LET x == Abs(a)
        y == Abs(b)
        x1 == x \div 1000
        x0 == x % 1000
        y1 == y \div 1000
        y0 == y % 1000
    IN  Sign(a) * Sign(b) * (x1 * y1 + ((x1 * y0 + x0 * y1 + ((x0 * y0) \div 1000)) \div 1000))

(* a * x for a coefficient a given in units of 10^-9 *)
MulNano(a, x) == TDiv(Mul(a, x), 1000)

(* a / b for 0 < b < 2 * 10^7, by long division in base 100 *)
LongDiv(a, b) ==
    LET m == Abs(a)
        q0 == m \div b
        r0 == m % b
        q1 == (r0 * 100) \div b
        r1 == (r0 * 100) % b
        q2 == (r1 * 100) \div b
        r2 == (r1 * 100) % b
        q3 == (r2 * 100) \div b
    IN  Sign(a) * (((q0 * 100 + q1) * 100 + q2) * 100 + q3)

(* a / b for b of the size of a temperature in kelvin *)
Quotient(a, b) == LongDiv(TDiv(a, 100), b \div 100)

(* Math.exp: 1 + x + x^2/2! + ... until the term vanishes *)
RECURSIVE ExpSeries(_, _, _)
ExpSeries(x, term, n) ==
    IF term = 0 THEN 0 ELSE term + ExpSeries(x, TDiv(Mul(term, x), n), n + 1)
exp(x) == ExpSeries(x, Scale, 1)

(* Math.log of a ratio near 1: 2 * (z + z^3/3 + z^5/5 + z^7/7),             *)
(* z = (r - 1) / (r + 1)                                                   *)
log(r) ==
    LET z == LongDiv(r - Scale, r + Scale)
        z2 == Mul(z, z)
        z3 == Mul(z2, z)
        z5 == Mul(z3, z2)
        z7 == Mul(z5, z2)
    IN  2 * (z + TDiv(z3, 3) + TDiv(z5, 5) + TDiv(z7, 7))

(* lines 7-30; C0 is given in units of 10^-9 *)
oxygenSolubility(salinity, temperature) ==
    LET A0 == 2009070
        A1 == 3220140
        A2 == 4050100
        A3 == 4944570
        A4 == -256847
        A5 == 3887670
        B0 == -6245
        B1 == -7376
        B2 == -10341
        B3 == -8171
        C0 == -489
        Ts == log(Quotient(298150000 - temperature, 273150000 + temperature))
        Ts2 == Mul(Ts, Ts)
        Ts3 == Mul(Ts2, Ts)
        Ts4 == Mul(Ts3, Ts)
        Ts5 == Mul(Ts4, Ts)
    IN  exp(A0 + Mul(A1, Ts) + Mul(A2, Ts2) + Mul(A3, Ts3) + Mul(A4, Ts4) + Mul(A5, Ts5)
            + Mul(salinity, B0 + Mul(B1, Ts) + Mul(B2, Ts2) + Mul(B3, Ts3))
            + MulNano(C0, Mul(salinity, salinity)))

(* the coefficients of the self-test (lines 80-95): Soc, offset, Tau20 and *)
(* E in units of 10^-6; A, B, C, D1 and D2 in units of 10^-9               *)
Coefficients ==
    [Soc |-> 466400, offset |-> -515300, Tau20 |-> 1490000,
     A |-> -3962800, B |-> 180600, C |-> -2378, E |-> 36000,
     D1 |-> 192634, D2 |-> -46480300]
Calibration == [present |-> TRUE, c |-> Coefficients]
(* an object without "CalibrationCoefficients" *)
NoCalibration == [present |-> FALSE, c |-> Coefficients]

newCol == "Oxygen (ml_per_l)"
SalinityCol == "Salinity (psu)"
TemperatureCol == "Temperature (degC)"
PressureCol == "Pressure (dbars)"
VoltageCol == "External Voltage 0"

(* Table.new(columns, names) *)
TableNew(columns, names) == [null |-> FALSE, names |-> names, columns |-> columns]
TableLength(tab) == IF tab.columns = <<>> THEN 0 ELSE Len(tab.columns[1])
HasColumn(tab, name) == \E i \in 1..Len(tab.names) : tab.names[i] = name
ColumnIndex(tab, name) == CHOOSE i \in 1..Len(tab.names) :
    /\ tab.names[i] = name
    /\ \A j \in 1..(i - 1) : tab.names[j] # name
Column(tab, name) == tab.columns[ColumnIndex(tab, name)]

(* col(name).bind(batch) throws when the batch has no field of that name *)
BindThrows(tab, name) ==
    \E n \in {SalinityCol, TemperatureCol, PressureCol, name} : ~HasColumn(tab, n)

(* v(idx): the element of the column, undefined outside 0..length-1 *)
Get(vec, idx) ==
    IF idx \in 0..(Len(vec) - 1) THEN [defined |-> TRUE, value |-> vec[idx + 1]]
    ELSE [defined |-> FALSE, value |-> 0]
(* undefined and 0 are falsy *)
IsTruthy(x) == x.defined /\ x.value # 0

(* the lag term testing the row index instead of the previous voltage *)
Dvdt_ByRowIndex(v, idx) ==
    IF idx > 0 THEN Get(v, idx).value - Get(v, idx - 1).value ELSE 0

(* line 56 *)
Dvdt(v, idx) ==
    IF IsTruthy(Get(v, idx - 1)) THEN Get(v, idx).value - Get(v, idx - 1).value ELSE 0

(* lines 55-63, row idx *)
OxygenRow(c, s, t, p, v, idx) ==
    LET ti == Get(t, idx).value
        pi == Get(p, idx).value
        tau == Mul(c.Tau20, exp(MulNano(c.D1, pi) + MulNano(c.D2, ti - 20 * Scale)))
        dvdt == Dvdt(v, idx)
        oxySol == oxygenSolubility(Get(s, idx).value, ti)
        K == ti + 273150000
        t2 == Mul(ti, ti)
    IN  Mul(Mul(Mul(Mul(c.Soc, Get(v, idx).value + c.offset + Mul(tau, dvdt)), oxySol),
                Scale + MulNano(c.A, ti) + MulNano(c.B, t2) + Mul(MulNano(c.C, t2), ti)),
            exp(Quotient(Mul(c.E, pi), K)))

(* Table.assign giving every field of other a column of its own, also when *)
(* the table already has a field of that name                              *)
assign_AppendOnly(tab, other) ==
    TableNew(tab.columns \o other.columns, tab.names \o other.names)

(* df.assign(other), line 70: a field of other replaces the field of the   *)
(* same name, the other fields of other are appended                       *)
assign(tab, other) ==
    LET fresh == SelectSeq(other.names, LAMBDA n : ~HasColumn(tab, n))
    IN  TableNew([i \in 1..(Len(tab.names) + Len(fresh)) |->
                     IF i <= Len(tab.names)
                     THEN IF HasColumn(other, tab.names[i])
                          THEN Column(other, tab.names[i]) ELSE tab.columns[i]
                     ELSE Column(other, fresh[i - Len(tab.names)])],
                 tab.names \o fresh)

(* the table of the self-test, lines 96-107 *)
ExampleVoltages ==
    <<759, 836, 791, 903, 958, 991, 1480, 1641, 1853, 2012, 1380, 2141, 2439,
      2797, 2170, 3067, 3250, 1995>>
ExampleTemperatures ==
    <<2, 12, 6, 20, 26, 30, 6, 12, 20, 26, 2, 30, 12, 20, 6, 26, 30, 2>>
trueValues ==
    <<109, 110, 110, 112, 114, 115, 385, 386, 387, 387, 387, 393, 659, 659, 660,
      660, 661, 663>>
Milli(seq) == [i \in 1..Len(seq) |-> seq[i] * 1000]
Units(seq) == [i \in 1..Len(seq) |-> seq[i] * Scale]
ExampleTable ==
    TableNew(<<Milli(ExampleVoltages), Units(ExampleTemperatures),
               Rep(0, Len(ExampleVoltages)), Rep(0, Len(ExampleVoltages))>>,
             <<VoltageCol, TemperatureCol, PressureCol, SalinityCol>>)

(* Tables of 1..MaxRows rows: any voltages of VoltValues, the temperatures *)
(* of the self-test, any choice of the four input columns, and possibly a  *)
(* column of oxygen values left by an earlier call.                        *)
VoltValues == {0, ExampleVoltages[1] * 1000, ExampleVoltages[2] * 1000}
InputNames == <<VoltageCol, TemperatureCol, PressureCol, SalinityCol, newCol>>
EarlierOxygen(n) == [i \in 1..n |-> i * Scale]
SmallTable(v, present) ==
    LET n == Len(v)
        all == <<v, Units(SubSeq(ExampleTemperatures, 1, n)), Rep(0, n), Rep(0, n),
                 EarlierOxygen(n)>>
        keep == SelectSeq(<<1, 2, 3, 4, 5>>, LAMBDA i : InputNames[i] \in present)
    IN  TableNew([k \in 1..Len(keep) |-> all[keep[k]]],
                 [k \in 1..Len(keep) |-> InputNames[keep[k]]])
SmallTables ==
    { SmallTable(v, present) :
        v \in UNION { [1..n -> VoltValues] : n \in 1..MaxRows },
        present \in (SUBSET {InputNames[i] : i \in 1..Len(InputNames)}) \ {{}} }
OxygenInputs ==
    { [df |-> tab, c |-> cal] : tab \in SmallTables \cup {ExampleTable},
                                 cal \in {Calibration, NoCalibration} }

(***************************************************************************)
(* The state machine.                                                      *)
(***************************************************************************)
NoTable == [null |-> TRUE, names |-> <<>>, columns |-> <<>>]

OxygenIdle ==
    /\ oxyPc = "idle"
    /\ argDf = NoTable
    /\ colName = ""
    /\ calibration = NoCalibration
    /\ retDf = NoTable
    /\ caught = FALSE
    /\ dvdts = <<>>

DecoderInit ==
    /\ pc = "reading"
    /\ lineNum = 0
    /\ dataStartLine = -1
    /\ serialNumber = NullStr
    /\ endDateTime = NullStr
    /\ samples = NullNum
    /\ mode = ""
    /\ pumpDelay = NullNum
    /\ pressureSensor = EmptyMap
    /\ extraSensors = EmptyMap
    /\ voltages = EmptyMap
    /\ voltageOffsets = EmptyMap
    /\ casts = <<>>
    /\ schema = <<>>
    /\ data = [r \in RuleIds |-> NullData]
    /\ dataRow = 0
    /\ df = NoTable
    /\ outcome = "running"
    /\ line = NoLine
    /\ trace = <<>>
    /\ written = [r \in RuleIds |-> <<>>]

Init == DecoderInit /\ OxygenIdle

(* One iteration of the line loop (lines 69-224) on line l.  An exception  *)
(* of a header handler leaves the loop for the catch of line 225.          *)
ReadLine(l, hexThrows) ==
    /\ pc = "reading"
    /\ lineNum < MaxLines
    /\ line' = l
    /\ IF HeaderThrows(l)
       THEN /\ pc' = "aborted"
            /\ trace' = <<>>
            /\ UNCHANGED <<lineNum, dataStartLine, config, schema, data, dataRow,
                           df, outcome, written>>
       ELSE /\ serialNumber' = serialNumberAfter(l)
            /\ endDateTime' = endDateTimeAfter(l)
            /\ samples' = samplesAfter(l)
            /\ mode' = modeAfter(l)
            /\ pumpDelay' = pumpDelayAfter(l)
            /\ pressureSensor' = pressureSensorAfter(l)
            /\ extraSensors' = extraSensorsAfter(l)
            /\ voltages' = voltagesAfter(l)
            /\ voltageOffsets' = voltageOffsetsAfter(l)
            /\ casts' = castsAfter(l)
            /\ dataStartLine' = dataStartLineAfter(l)
            /\ IF InDataMode(lineNum, dataStartLine')
               THEN LET env == [text |-> l.text,
                                first |-> lineNum = dataStartLine',
                                row |-> dataRow,
                                samples |-> samples',
                                voltages |-> voltages',
                                extraSensors |-> extraSensors',
                                mode |-> mode',
                                hexThrows |-> hexThrows]
                    IN  \E res \in {DecodeLine(env, schema, data, written)} :
                        /\ schema' = res.schema
                        /\ data' = res.data
                        /\ written' = res.written
                        /\ trace' = res.trace
                        /\ dataRow' = NextDataRow(dataRow, res.trace)
               ELSE /\ trace' = <<>>
                    /\ UNCHANGED <<schema, data, dataRow, written>>
            /\ lineNum' = lineNum + 1
            /\ UNCHANGED <<pc, df, outcome>>
    /\ UNCHANGED oxygenVars

RuleOf(name) == CHOOSE r \in RuleIds :
    /\ parsingRules[r].variable = name
    /\ \A q \in 1..(r - 1) : parsingRules[q].variable # name

(* Lines 231-243, at the end of the stream or after the catch.             *)
(* FloatVector.from of a rule whose data is still null is the library's    *)
(* business: it may throw (parseHex rejects) or give an empty vector.      *)
Finish(nullThrows) ==
    /\ pc \in {"reading", "aborted"}
    /\ pc' = "done"
    /\ IF nullThrows /\ \E i \in 1..Len(schema) : data[RuleOf(schema[i])].null
       THEN /\ outcome' = "rejected"
            /\ df' = NoTable
       ELSE /\ outcome' = "resolved"
            /\ df' = [null |-> FALSE,
                      names |-> schema,
                      columns |-> [i \in 1..Len(schema) |-> data[RuleOf(schema[i])].arr]]
    /\ UNCHANGED <<lineNum, dataStartLine, config, schema, data, dataRow,
                   line, trace, written>>
    /\ UNCHANGED oxygenVars

Next ==
    \/ \E l \in FrameLines : \E hexThrows \in HexFailureModes(l) : ReadLine(l, hexThrows)
    \/ \E nullThrows \in BOOLEAN : Finish(nullThrows)

Spec == Init /\ [][Next]_vars

NextHeader ==
    \/ \E l \in HeaderFileLines : \E hexThrows \in HexFailureModes(l) : ReadLine(l, hexThrows)
    \/ \E nullThrows \in BOOLEAN : Finish(nullThrows)

SpecHeader == Init /\ [][NextHeader]_vars

(* the program before a call oxygen(df, colName, c) *)
InitOxygen ==
    /\ DecoderInit
    /\ oxyPc = "called"
    /\ \E inp \in OxygenInputs : argDf = inp.df /\ calibration = inp.c
    /\ colName = VoltageCol
    /\ retDf = NoTable
    /\ caught = FALSE
    /\ dvdts = <<>>

(* oxygen(df, colName, c), lines 32-76.  Line 47 is outside the try: an    *)
(* object without coefficients is a TypeError thrown to the caller.  An    *)
(* exception of the scan is caught at line 71, logged, and df is returned  *)
(* as it came.                                                             *)
Oxygen ==
    /\ oxyPc = "called"
    /\ IF ~calibration.present
       THEN /\ oxyPc' = "thrown"
            /\ UNCHANGED <<retDf, caught, dvdts>>
       ELSE /\ oxyPc' = "returned"
            /\ IF BindThrows(argDf, colName)
               THEN /\ caught' = TRUE
                    /\ retDf' = argDf
                    /\ dvdts' = <<>>
               ELSE LET c == calibration.c
                        s == Column(argDf, SalinityCol)
                        t == Column(argDf, TemperatureCol)
                        p == Column(argDf, PressureCol)
                        v == Column(argDf, colName)
                        oxy == [i \in 1..TableLength(argDf) |-> OxygenRow(c, s, t, p, v, i - 1)]
                    IN  /\ caught' = FALSE
                        /\ dvdts' = [i \in 1..TableLength(argDf) |-> Dvdt(v, i - 1)]
                        /\ retDf' = assign(argDf, TableNew(<<oxy>>, <<newCol>>))
    /\ UNCHANGED <<argDf, colName, calibration, decoderVars>>

NextOxygen == Oxygen

SpecOxygen == InitOxygen /\ [][NextOxygen]_vars

(***************************************************************************)
(* Properties.                                                             *)
(***************************************************************************)
Range(seq) == {seq[i] : i \in 1..Len(seq)}
Last(seq) == seq[Len(seq)]
Decoded == trace # <<>>
Consumed(tr) == Last(tr).after
FlagFalse(r) ==
    /\ parsingRules[r].sensor \in DOMAIN extraSensors
    /\ ~extraSensors[parsingRules[r].sensor]
VoltageAbsent(r) ==
    /\ parsingRules[r].sensor = "Voltage"
    /\ ~Truthy(voltages, parsingRules[r].variable)
Unsupported == {"SeaFET", "DualGTP", "DualGasTensionDevice"}
OptionalGroups == {"SBE38", "WETLABS", "GasTensionDevice", "OPTODE", "SBE63"}
ClockColumn == "Time, Seconds since January 1, 2000"
Active(r) == ~SkipTest(parsingRules[r], voltages, extraSensors, mode)

(* C1: once the first data line has been processed, no later line adds a   *)
(* column to the schema, removes one, or allocates a column's storage      *)
(* again.                                                                  *)
C1_SchemaFixedByFirstRow ==
    [][(dataRow >= 1 /\ lineNum' # lineNum) =>
           /\ schema' = schema
           /\ \A i \in 1..Len(trace') : ~trace'[i].pushed /\ ~trace'[i].created]_vars

(* C2: the first sentinel fixes the first data line; no later line changes *)
(* dataStartLine, and every line read after the sentinel is decoded as a   *)
(* data line.                                                              *)
C2_SentinelOneWay ==
    [][dataStartLine # -1 =>
           /\ dataStartLine' = dataStartLine
           /\ lineNum' # lineNum => Len(trace') = NumRules]_vars

(* C3: a header line with a recognized prefix and the wrong sub-structure  *)
(* is skipped: it never takes the parse out of the line loop.              *)
MalformedHeader(l) ==
    \/ l.kind = "mode" /\ l.modeParts # 3
    \/ l.kind = "volt" /\ (l.colonParts # 2 \/ l.commaParts < 2)
    \/ l.kind = "cast" /\ (l.samplesParts < 2 \/ l.commaParts < 2)
    \/ l.kind \in {"pressure", "sensors", "extvolt"}
          /\ \E i \in 1..Len(l.segs) : l.segs[i].eqs # 1
C3_MalformedHeaderSkipped == MalformedHeader(line) => pc # "aborted"

(* C4: an active rule for which fewer characters remain than its width is  *)
(* skipped alone: no value, no column, no exception, the offset unchanged, *)
(* and the rules after it are evaluated from the same offset.              *)
C4_ShortRuleSkippedAlone ==
    \A i \in 1..Len(trace) :
        (Active(trace[i].rule)
            /\ Len(line.text) - trace[i].before < parsingRules[trace[i].rule].size) =>
            /\ trace[i].after = trace[i].before
            /\ trace[i].what = "short"
            /\ ~trace[i].stored /\ ~trace[i].pushed /\ ~trace[i].created
            /\ (written[trace[i].rule] = <<>> \/ Last(written[trace[i].rule]) # dataRow - 1)
            /\ Len(trace) = NumRules
            /\ (i < NumRules => trace[i + 1].before = trace[i].before)
            /\ pc # "aborted"
C4_Witness ==
    \E i, j \in 1..Len(trace) :
        /\ i < j
        /\ Active(trace[i].rule)
        /\ Len(line.text) - trace[i].before < parsingRules[trace[i].rule].size
        /\ trace[j].what = "commit"
        /\ trace[j].before = trace[i].before

(* C5: an exception raised while a rule of a data line is decoded stays    *)
(* with that rule: the offset is unchanged, the remaining rules are        *)
(* evaluated, the row index advances by exactly one, and the line loop     *)
(* goes on.                                                                *)
C5_RuleFailureConfined ==
    [][(lineNum' # lineNum /\ \E i \in 1..Len(trace') : trace'[i].what = "throw") =>
           /\ Len(trace') = NumRules
           /\ \A i \in 1..Len(trace') : trace'[i].what = "throw" =>
                  /\ trace'[i].after = trace'[i].before
                  /\ i < NumRules => trace'[i + 1].before = trace'[i].before
           /\ dataRow' = dataRow + 1
           /\ lineNum' = lineNum + 1
           /\ pc' = "reading"]_vars
C5_Witness ==
    \E i, j \in 1..Len(trace) :
        i < j /\ trace[i].what = "throw" /\ trace[j].what = "commit" /\ pc = "reading"

(* C6, as stated: after n data lines, positions 0..n-1 of every existing   *)
(* column have each been written exactly once, in increasing order.        *)
C6_EveryRowWritten ==
    \A r \in RuleIds : ~data[r].null => written[r] = [k \in 1..dataRow |-> k - 1]

(* C6, amended: a data row writes at most one value into a column, at the  *)
(* row's index, and exactly one when the column's rule commits on that row *)
(* and the index is below the column's length; the positions written are   *)
(* strictly increasing and below the number of data lines processed.       *)
C6_AtMostOneWritePerRow ==
    /\ \A r \in RuleIds :
        /\ \A k \in 1..Len(written[r]) : written[r][k] \in 0..(dataRow - 1)
        /\ \A k \in 1..(Len(written[r]) - 1) : written[r][k] < written[r][k + 1]
        /\ written[r] # <<>> => ~data[r].null
    /\ \A i \in 1..Len(trace) :
        /\ trace[i].stored <=>
              (written[trace[i].rule] # <<>> /\ Last(written[trace[i].rule]) = dataRow - 1)
        /\ trace[i].stored <=>
              (trace[i].what = "commit" /\ dataRow - 1 < Len(data[trace[i].rule].arr))
C6_Witness ==
    \E r \in RuleIds : written[r] = <<0, 1>> /\ dataRow = 2 /\ Len(data[r].arr) >= 2

(* What the last decoded line would have done with voltage rule r flagged  *)
(* present and its column allocated, everything else the same.             *)
TraceIfPresent(r) ==
    DecodeLine([text |-> line.text,
                first |-> lineNum - 1 = dataStartLine,
                row |-> dataRow - 1,
                samples |-> samples,
                voltages |-> Put(voltages, parsingRules[r].variable, TRUE),
                extraSensors |-> extraSensors,
                mode |-> mode,
                hexThrows |-> FALSE],
               <<>>,
               [data EXCEPT ![r] = [null |-> FALSE, arr |-> <<>>]],
               written).trace
AllAccepted(tr) == \A i \in 1..Len(tr) : tr[i].what \in {"flag", "commit"}

C8_FlaggedOffSensorsSkipped ==
    /\ \A r \in RuleIds : parsingRules[r].sensor \in Unsupported =>
          data[r].null /\ parsingRules[r].variable \notin Range(schema)
    /\ Decoded => \A r \in RuleIds :
        /\ (FlagFalse(r) \/ parsingRules[r].sensor \in Unsupported) =>
              /\ trace[r].what = "flag"
              /\ trace[r].after = trace[r].before
              /\ ~trace[r].pushed /\ ~trace[r].created /\ ~trace[r].stored
        /\ (parsingRules[r].sensor \in OptionalGroups
                /\ parsingRules[r].sensor \notin DOMAIN extraSensors) =>
              trace[r].what # "flag"
C8_Witness ==
    /\ Decoded
    /\ \E r, q \in RuleIds :
        /\ FlagFalse(r) /\ trace[r].what = "flag"
        /\ parsingRules[q].sensor \in OptionalGroups
        /\ parsingRules[q].sensor \notin DOMAIN extraSensors
        /\ trace[q].what = "commit"
        /\ q > r
    /\ \E u \in RuleIds :
        /\ parsingRules[u].sensor \in Unsupported
        /\ Truthy(extraSensors, parsingRules[u].sensor)
        /\ trace[u].what = "flag"

(* C9: when mode is "profile" the clock column is not in the schema and    *)
(* the clock rule consumes no characters.                                  *)
C9_NoClockInProfile ==
    mode = "profile" =>
        /\ ClockColumn \notin Range(schema)
        /\ Decoded => trace[NumRules].after = trace[NumRules].before

(* C10: as long as no sentinel was read nothing is decoded: the schema is  *)
(* empty, the row index 0, no column allocated, and parseHex resolves with *)
(* a table of no column and no row.                                        *)
C10_NoSentinelNoData ==
    dataStartLine = -1 =>
        /\ schema = <<>>
        /\ dataRow = 0
        /\ ~Decoded
        /\ \A r \in RuleIds : data[r].null /\ written[r] = <<>>
        /\ pc = "done" =>
              /\ outcome = "resolved"
              /\ df = [null |-> FALSE, names |-> <<>>, columns |-> <<>>]
C10_Witness ==
    /\ dataStartLine = -1
    /\ pc = "done"
    /\ lineNum >= 2
    /\ line.kind = "data"
    /\ outcome = "resolved"

(* C11: casts is append-only and in file order: a "* cast" line appends    *)
(* one record behind the earlier ones, no other line touches casts, no     *)
(* record is removed or modified, and every record has a first sample      *)
(* index not above its last sample index.                                  *)
C11_CastsAppendOnlyOrdered ==
    [][/\ Len(casts') >= Len(casts)
       /\ SubSeq(casts', 1, Len(casts)) = casts
       /\ pc' # "done" =>
              Len(casts') = Len(casts) + (IF line'.kind = "cast" THEN 1 ELSE 0)
       /\ \A i \in 1..Len(casts') :
              /\ casts'[i].startNum.tag = "int"
              /\ casts'[i].endNum.tag = "int"
              /\ casts'[i].startNum.n <= casts'[i].endNum.n]_vars

(* C12: once the sentinel has been read no line changes the instrument     *)
(* configuration: sample count, mode, pump delay, serial number, end date, *)
(* pressure sensor, sensor flags, voltage flags, voltage offsets, casts.   *)
C12_ConfigFrozenAfterSentinel ==
    [][dataStartLine # -1 => config' = config]_vars

(* C13: for a rule without scaling operations (temperature and pressure   *)
(* counts, the 12-character WETLABS counts, the 8-character clock) every   *)
(* value stored in the rule's column equals exactly the integer that the   *)
(* hex conversion returns for the row's field.                             *)
C13_UnscaledStoredExactly ==
    \A i \in 1..Len(trace) :
        (trace[i].stored /\ parsingRules[trace[i].rule].operations = <<>>) =>
            data[trace[i].rule].arr[dataRow] =
                hex2dec(slice(line.text, trace[i].before, trace[i].after))

OxygenReturned == oxyPc = "returned" /\ ~caught
RequiredColumns == {SalinityCol, TemperatureCol, PressureCol, colName}
LacksRequiredColumn == \E n \in RequiredColumns : ~HasColumn(argDf, n)

(* C14: the lag term of row i is V[i] - V[i-1] for every row i > 0,        *)
(* whatever the two voltages are (V[i-1] = 0 included), and 0 for row 0.   *)
C14_LagIsOneSampleDifference ==
    OxygenReturned =>
        \A i \in 1..Len(dvdts) :
            dvdts[i] = IF i = 1 THEN 0
                       ELSE Column(argDf, colName)[i] - Column(argDf, colName)[i - 1]

(* C15: oxygen() on a table lacking the salinity, temperature, pressure or *)
(* voltage column fails: the caller gets an error, and no oxygen column is *)
(* added to the table.                                                     *)
C15_MissingColumnSurfaced ==
    (oxyPc \in {"returned", "thrown"} /\ LacksRequiredColumn) =>
        /\ oxyPc = "thrown"
        /\ ~(HasColumn(retDf, newCol) /\ ~HasColumn(argDf, newCol))

(* C16, as stated: a successful call returns the columns of the input      *)
(* table, names, values and order unchanged, plus exactly one more column  *)
(* named "Oxygen (ml_per_l)" with one value per input row.                 *)
C16_InputColumnsPlusOne ==
    OxygenReturned =>
        /\ retDf.names = Append(argDf.names, newCol)
        /\ \A i \in 1..Len(argDf.names) : retDf.columns[i] = argDf.columns[i]
        /\ Len(retDf.columns) = Len(argDf.columns) + 1
        /\ Len(Last(retDf.columns)) = TableLength(argDf)

(* C16, amended: on a table without a column "Oxygen (ml_per_l)" the call  *)
(* returns the input columns unchanged plus that one column; on a table    *)
(* that already has a column of that name it returns the same columns in   *)
(* the same order, that column replaced and every other one unchanged.  In *)
(* both cases the oxygen column holds one value per input row.             *)
C16_ColumnsKeptOxygenSet ==
    OxygenReturned =>
        /\ retDf.names = IF HasColumn(argDf, newCol) THEN argDf.names
                         ELSE Append(argDf.names, newCol)
        /\ Len(retDf.columns) = Len(retDf.names)
        /\ \A i \in 1..Len(argDf.names) :
              argDf.names[i] # newCol => retDf.columns[i] = argDf.columns[i]
        /\ \A i \in 1..Len(retDf.names) :
              retDf.names[i] = newCol =>
                  /\ Len(retDf.columns[i]) = TableLength(argDf)
                  /\ \A k \in 1..TableLength(argDf) :
                        retDf.columns[i][k] =
                            OxygenRow(calibration.c, Column(argDf, SalinityCol),
                                      Column(argDf, TemperatureCol),
                                      Column(argDf, PressureCol),
                                      Column(argDf, colName), k - 1)
C16_Witness ==
    /\ OxygenReturned
    /\ ~HasColumn(argDf, newCol)
    /\ TableLength(argDf) >= 2
    /\ Len(argDf.names) >= 4
    /\ Len(retDf.names) = Len(argDf.names) + 1

(* C17: on the table and the coefficients of the self-test every computed  *)
(* oxygen value is within 0.02 of the reference value of its row.          *)
C17_ExampleWithinTolerance ==
    (oxyPc = "returned" /\ argDf = ExampleTable) =>
        \A i \in 1..Len(trueValues) :
            Abs(Column(retDf, newCol)[i] - trueValues[i] * (Scale \div 100))
                <= 2 * (Scale \div 100)

(* C18: a rule that has no column after the first data row takes no part  *)
(* in any later row: it stores no value, gets no column and leaves the     *)
(* offset alone, also on a line that is long enough and numeric.           *)
C18_NoColumnNoLaterPart ==
    [][(dataRow >= 1 /\ lineNum' # lineNum) =>
           \A i \in 1..Len(trace') :
               data[trace'[i].rule].null =>
                   /\ ~trace'[i].stored
                   /\ trace'[i].after = trace'[i].before
                   /\ data'[trace'[i].rule].null]_vars

(* C19: the columns of the assembled table are the registered ones in the  *)
(* order of registration: the names follow the order of the rule table,    *)
(* no name occurs twice, and each column holds the data accumulated for    *)
(* the rule of its name.                                                   *)
C19_TableIsRegisteredSchema ==
    (pc = "done" /\ outcome = "resolved") =>
        /\ df.names = schema
        /\ \A i, j \in 1..Len(df.names) :
              i < j => RuleOf(df.names[i]) < RuleOf(df.names[j])
        /\ \A i \in 1..Len(df.names) :
              df.columns[i] = data[RuleOf(df.names[i])].arr

(* C20: a column is as long as the sample count read from the header when  *)
(* it is allocated (0 without a "* samples" line) and keeps that length    *)
(* whatever the number of data lines; the row index grows by one per data  *)
(* line; a value decoded for a row index at or beyond the length is        *)
(* dropped, without an exception and without a change of the column; a     *)
(* position no data line has written holds 0.                              *)
C20_ColumnLengthIsSampleCount ==
    [][lineNum' # lineNum =>
           /\ dataRow' = dataRow + (IF trace' # <<>> THEN 1 ELSE 0)
           /\ \A r \in RuleIds :
                 LET created == trace' # <<>> /\ trace'[r].created
                     before == IF created
                               THEN [null |-> FALSE,
                                     arr |-> [k \in 1..ArrayLength(samples') |-> Zero]]
                               ELSE data[r]
                 IN  /\ data'[r].null = before.null
                     /\ Len(data'[r].arr) = Len(before.arr)
                     /\ (trace' # <<>> /\ trace'[r].what = "commit"
                             /\ dataRow >= Len(data'[r].arr)) =>
                            /\ ~trace'[r].stored
                            /\ trace'[r].after = trace'[r].before + parsingRules[r].size
                            /\ data'[r] = before
                            /\ written'[r] = written[r]
                     /\ \A k \in 1..Len(data'[r].arr) :
                            (k - 1) \notin Range(written'[r]) => data'[r].arr[k] = Zero]_vars
C20_Witness ==
    \E r \in RuleIds :
        /\ Len(data[r].arr) = 1
        /\ samples = IntNum(1)
        /\ written[r] = <<0>>
        /\ dataRow = 2
        /\ trace # <<>> /\ trace[r].what = "commit" /\ ~trace[r].stored

====
